---- MODULE Spec2Model ----
(***************************************************************************)
(* Model of the settings drawer of surf.new (SettingsContent): the React   *)
(* state of the component, its four effects, its event handlers, the       *)
(* catalog fetch and the Ollama model fetch.                               *)
(*                                                                         *)
(* React semantics that the model keeps:                                   *)
(*  - an effect runs after a render when one of its dependencies differs   *)
(*    from the value it had at the previous render (all run on mount);     *)
(*  - the effects of one render run in declaration order, all reading the  *)
(*    state of that render (closures); their setState calls are batched,   *)
(*    the last call on a state variable wins;                              *)
(*  - an async function keeps the closure of the render that started it;   *)
(*  - the state set by the effects and by the fetch callbacks is queued    *)
(*    and rendered by a later task; the effects of that render are owed    *)
(*    until a task of their own, or the next event, runs them;             *)
(*  - an event reaches the handler of the render on screen, which reads    *)
(*    the values of that render; when the handler sets state React runs    *)
(*    the effects that render owes, renders, and runs the effects of that  *)
(*    render before the event ends; a handler that sets no state causes    *)
(*    no render;                                                           *)
(*  - which updates the render of an event applies depends on the React    *)
(*    release the application is built with, which the repository does     *)
(*    not fix (next.config.js enables the React compiler): the handler's   *)
(*    updates alone, the queued ones staying queued (a functional update   *)
(*    is applied again when they are rendered), or every queued update.    *)
(*    The model takes either;                                              *)
(*  - the state variables hold every queued update applied in queue        *)
(*    order; tree holds what the render on screen got from useState.       *)
(***************************************************************************)
EXTENDS Integers, Sequences, FiniteSets, TLC

(***************************************************************************)
(* Values                                                                  *)
(***************************************************************************)
\* JavaScript undefined / null for a string-valued state
Undefined == "undefined"
\* JavaScript undefined for a value mapping (modelSettings, agentSettings)
UndefinedMap == [undefined |-> "undefined"]
\* the empty object {}
EmptyMap == [k \in {} |-> ""]
\* currentSettings === null
NullSettings == [null |-> TRUE]
\* agents === null
NullAgents == <<>>
\* ollamaError === null
NoError == "null"

\* { ...(m || {}), [k]: v }
\* variant of Put: the result holds the written key alone
PutAlone(m, k, v) == [x \in {k} |-> v]

Put(m, k, v) ==
    LET base == IF m = UndefinedMap THEN EmptyMap ELSE m
    IN  [x \in (DOMAIN base) \cup {k} |-> IF x = k THEN v ELSE base[x]]

\* const c = { ...m }; delete c[k]
Delete(m, k) == [x \in (DOMAIN m) \ {k} |-> m[x]]

(***************************************************************************)
(* The catalog served by /api/agents.  Objects are kept as sequences of    *)
(* entries so that Object.keys / Object.entries order is explicit.         *)
(***************************************************************************)
Writer ==
    [name |-> "Writer",
     supported_models |-> << [provider |-> "openai", models |-> <<"gpt-4", "gpt-4o">>] >>,
     model_settings |-> << [key |-> "temperature", default |-> "0.7"] >>,
     agent_settings |-> << >>]

Critic ==
    [name |-> "Critic",
     supported_models |-> << [provider |-> "anthropic", models |-> <<"claude-3">>],
                             [provider |-> "openai", models |-> <<"gpt-4o">>] >>,
     model_settings |-> << >>,
     agent_settings |-> << [key |-> "style", default |-> "terse"] >>]

Local ==
    [name |-> "Local",
     supported_models |-> << [provider |-> "ollama", models |-> <<"llama3">>],
                             [provider |-> "anthropic", models |-> <<"claude-3-haiku", "claude-3">>] >>,
     model_settings |-> << [key |-> "temperature", default |-> "0.2"],
                           [key |-> "max_tokens", default |-> "1000"] >>,
     agent_settings |-> << [key |-> "style", default |-> "verbose"] >>]

AgentConfig(a) ==
    CASE a = "writer" -> Writer
      [] a = "critic" -> Critic
      [] a = "local"  -> Local

\* the catalogs the server may return: same agents, two key orders
Catalogs == { <<"writer", "critic", "local">>, <<"local", "writer", "critic">> }

AgentKeys(data) == { data[i] : i \in 1..Len(data) }

\* what /api/ollama/models may answer with { models: [...] }
OllamaLists ==
    { << >>,
      << [tag |-> "mistral:7b", base_name |-> "mistral"] >>,
      << [tag |-> "llama3", base_name |-> "llama3"],
         [tag |-> "mistral:7b", base_name |-> "mistral"] >> }

\* messages of a failed fetch (response not ok, or fetch rejected)
OllamaFailures == { "Failed to fetch Ollama models: 500 down" }

\* values a user may type or slide a setting to
EditValues == { "0.9" }

\* every model identifier a Select item can carry
ModelIds == { "gpt-4", "gpt-4o", "claude-3", "claude-3-haiku", "llama3", "mistral:7b" }

\* what a user may type into the API key field
ApiKeyInputs == { "", "sk-1" }

\* at most this many Ollama fetches are outstanding at once
MaxInflight == 2

\* a session is followed for this many user inputs
MaxEvents == 3

\* a setting's min and max lie in -MaxLimit..MaxLimit
MaxLimit == 2

\* a user types integers in -MaxTyped..MaxTyped into a number field
MaxTyped == 4

(***************************************************************************)
(* Pure helpers of the component                                           *)
(***************************************************************************)
\* variant of Reduce: the accumulator is replaced, not extended (acc = { [key]: default })
RECURSIVE ReduceOverwrite(_, _)
ReduceOverwrite(entries, acc) ==
    IF entries = << >> THEN acc
    ELSE ReduceOverwrite(Tail(entries), Put(EmptyMap, Head(entries).key, Head(entries).default))

\* Object.entries(schema).reduce((acc, [key, config]) => { acc[key] = config.default; return acc }, {})
RECURSIVE Reduce(_, _)
Reduce(entries, acc) ==
    IF entries = << >> THEN acc
    ELSE Reduce(Tail(entries), Put(acc, Head(entries).key, Head(entries).default))

ComputeDefaults(schema) == Reduce(schema, EmptyMap)

SchemaKeys(schema) == { schema[i].key : i \in 1..Len(schema) }

\* supported_models.find((m) => m.provider === p): index of the first match, 0 when undefined
FindProvider(sm, p) ==
    LET I == { i \in 1..Len(sm) : sm[i].provider = p }
    IN  IF I = {} THEN 0 ELSE CHOOSE i \in I : \A j \in I : i <= j

Tags(list) == { list[i].tag : i \in 1..Len(list) }

\* defaultModels.map((model) => ({ tag: model, base_name: model }))
Synthesize(models) == [i \in 1..Len(models) |-> [tag |-> models[i], base_name |-> models[i]]]

\* currentSettings?.field
Field(s, f) == IF s = NullSettings THEN Undefined ELSE s[f]
MapField(s, f) == IF s = NullSettings THEN UndefinedMap ELSE s[f]
\* currentSettings?.providerApiKeys || {}
ApiKeys(s) == IF s = NullSettings THEN EmptyMap ELSE s.providerApiKeys

(***************************************************************************)
(* State                                                                   *)
(***************************************************************************)
VARIABLES
    catalog,                \* what /api/agents answers in this session
    currentSettings,        \* the settings store (SettingsContext)
    agents,                 \* useState<AvailableAgents | null>
    loading,
    apiKey,
    ollamaModels,
    isLoadingOllamaModels,
    ollamaError,
    selectedAgent,
    selectedProvider,
    selectedModel,
    modelSettings,
    agentSettings,
    showAdvanced,           \* useState(false): the Advanced Settings block is open
    tree,                   \* the values of the render on screen; its closures read them
    rendered,               \* dependency values of the last render whose effects ran
    agentsFetch,            \* "idle" | "pending" | "done": the fetch of /api/agents
    inflight,               \* outstanding fetchOllamaModels calls, in issue order
    lastAction,             \* history: name of the last step
    lastEvent,              \* history: last external event (user input, network answer)
    calls,                  \* history: external calls made by the last step
    events,                 \* history: number of user inputs so far
    latest,                 \* history: the most recently issued Ollama call and its outcome
    source,                 \* what /api/ollama/models answers, when it always answers the same
    input                   \* one integer SettingInput: its config, field text, value;
                            \* history: the text last parsed and what came of it

vars == << catalog, currentSettings, agents, loading, apiKey, ollamaModels,
           isLoadingOllamaModels, ollamaError, selectedAgent, selectedProvider,
           selectedModel, modelSettings, agentSettings, showAdvanced, tree, rendered,
           agentsFetch, inflight, lastAction, lastEvent, calls, events, latest, source,
           input >>

drawer == << catalog, currentSettings, agents, loading, apiKey, ollamaModels,
             isLoadingOllamaModels, ollamaError, selectedAgent, selectedProvider,
             selectedModel, modelSettings, agentSettings, showAdvanced, tree, rendered,
             agentsFetch, inflight, lastAction, lastEvent, calls, events, latest, source >>

selection == << selectedAgent, selectedProvider, selectedModel, modelSettings, agentSettings >>
ollamaState == << ollamaModels, isLoadingOllamaModels, ollamaError >>

Settings(a, p, m, ms, as, keys) ==
    [selectedAgent |-> a, selectedProvider |-> p, selectedModel |-> m,
     modelSettings |-> ms, agentSettings |-> as, providerApiKeys |-> keys]

\* configurations a previous session may have left in the settings store
PersistedFull ==
    { Settings("writer", "openai", "gpt-4o", [temperature |-> "0.9"], EmptyMap, EmptyMap),
      Settings("local", "anthropic", "claude-3",
               [temperature |-> "0.5", max_tokens |-> "1000"], [style |-> "verbose"],
               [openai |-> "sk-0", anthropic |-> "sk-2"]),
      Settings("local", "ollama", "llama3",
               [temperature |-> "0.2", max_tokens |-> "1000"], [style |-> "verbose"],
               EmptyMap) }

\* stored by an older version or damaged: one required field is missing
PersistedPartial ==
    { Settings("writer", Undefined, "gpt-4", [temperature |-> "0.7"], EmptyMap, EmptyMap),
      Settings("writer", "openai", Undefined, [temperature |-> "0.7"], EmptyMap, EmptyMap),
      Settings("writer", "openai", "gpt-4", UndefinedMap, EmptyMap, EmptyMap),
      Settings("writer", "openai", "gpt-4", [temperature |-> "0.7"], UndefinedMap, EmptyMap) }

\* stored before writer's schema declared temperature
PersistedStale ==
    { Settings("writer", "openai", "gpt-4", EmptyMap, EmptyMap, EmptyMap) }

Persisted == {NullSettings} \cup PersistedFull \cup PersistedPartial \cup PersistedStale

NotRendered ==
    [mounted |-> FALSE, selectedProvider |-> Undefined, selectedAgent |-> Undefined,
     agents |-> NullAgents, selectedModel |-> Undefined]

NoEvent == [op |-> "none", arg |-> "none"]

\* no number field is being followed
NoInput ==
    [config |-> [hasMin |-> FALSE, min |-> 0, hasMax |-> FALSE, max |-> 0, default |-> 0],
     text |-> [nan |-> FALSE, n |-> 0], value |-> 0,
     typed |-> [nan |-> FALSE, n |-> 0], once |-> 0, stage |-> "none"]

\* no call to /api/ollama/models has been issued yet
NoCall == [state |-> "none", error |-> NoError, list |-> << >>]

\* the history of the last issued call is not kept
Untracked == [state |-> "untracked", error |-> NoError, list |-> << >>]

\* the ten useState values that setState calls outside the event handlers set:
\* what a render of the state as it is now would return from useState
State ==
    [agents |-> agents, loading |-> loading, ollamaModels |-> ollamaModels,
     isLoadingOllamaModels |-> isLoadingOllamaModels, ollamaError |-> ollamaError,
     selectedAgent |-> selectedAgent, selectedProvider |-> selectedProvider,
     selectedModel |-> selectedModel, modelSettings |-> modelSettings,
     agentSettings |-> agentSettings]

\* the useState initialisers and the first render, before the first effects run
DrawerInit ==
    /\ catalog \in Catalogs
    /\ currentSettings \in Persisted
    /\ currentSettings # NullSettings => catalog = <<"writer", "critic", "local">>
    /\ agents = NullAgents
    /\ loading = FALSE
    /\ apiKey = ""
    /\ showAdvanced = FALSE
    /\ ollamaModels = << >>
    /\ isLoadingOllamaModels = FALSE
    /\ ollamaError = NoError
    /\ selectedAgent = Field(currentSettings, "selectedAgent")
    /\ selectedProvider = Field(currentSettings, "selectedProvider")
    /\ selectedModel = Field(currentSettings, "selectedModel")
    /\ modelSettings = MapField(currentSettings, "modelSettings")
    /\ agentSettings = MapField(currentSettings, "agentSettings")
    /\ tree = State
    /\ rendered = NotRendered
    /\ agentsFetch = "idle"
    /\ inflight = << >>
    /\ lastAction = "Init"
    /\ lastEvent = NoEvent
    /\ calls = << >>
    /\ events = 0

\* /api/ollama/models may answer each call differently
AnySource == [kind |-> "any", list |-> << >>, msg |-> ""]

Init == DrawerInit /\ input = NoInput /\ source = AnySource /\ latest = Untracked

(***************************************************************************)
(* Effects                                                                 *)
(***************************************************************************)
\* the dependency values of the render t
DepsOf(t) ==
    [mounted |-> TRUE, selectedProvider |-> t.selectedProvider,
     selectedAgent |-> t.selectedAgent, agents |-> t.agents,
     selectedModel |-> t.selectedModel]

\* the render on screen has effects to run: it is the first render, or a
\* dependency of some effect differs from the render before it
EffectsOwed == rendered # DepsOf(tree)

\* setState calls are queued that React has not rendered yet
UpdatesQueued == tree # State

\* an effect is still to run or an update still to be rendered
Pending == EffectsOwed \/ UpdatesQueued

\* [selectedProvider, selectedAgent, agents, selectedModel]; prev holds the
\* values of the render before t
OllamaDepsChanged(prev, t) ==
    \/ ~prev.mounted
    \/ prev.selectedProvider # t.selectedProvider
    \/ prev.selectedAgent # t.selectedAgent
    \/ prev.agents # t.agents
    \/ prev.selectedModel # t.selectedModel

\* variant of AgentDepsChanged: dependency list [agents]
AgentDepsChangedAgentsOnly(prev, t) ==
    \/ ~prev.mounted
    \/ prev.agents # t.agents

\* [selectedAgent, agents]
AgentDepsChanged(prev, t) ==
    \/ ~prev.mounted
    \/ prev.selectedAgent # t.selectedAgent
    \/ prev.agents # t.agents

\* variant of ProviderDepsChanged: dependency list [selectedAgent, agents]
ProviderDepsChangedAgentOnly(prev, t) ==
    \/ ~prev.mounted
    \/ prev.selectedAgent # t.selectedAgent
    \/ prev.agents # t.agents

\* [selectedProvider, selectedAgent, agents]
ProviderDepsChanged(prev, t) ==
    \/ AgentDepsChanged(prev, t)
    \/ prev.selectedProvider # t.selectedProvider

\* the Ollama effect issues a fetch
OllamaEffectFires(prev, t) == OllamaDepsChanged(prev, t) /\ t.selectedProvider = "ollama"

\* the agent effect passes its guard
AgentEffectFires(prev, t) ==
    AgentDepsChanged(prev, t) /\ t.agents # NullAgents /\ t.selectedAgent # Undefined

\* the provider effect passes its outer guard
ProviderEffectFires(prev, t) ==
    /\ ProviderDepsChanged(prev, t)
    /\ t.agents # NullAgents /\ t.selectedAgent # Undefined
    /\ t.selectedProvider # Undefined

\* agents[selectedAgent].supported_models[0].provider
FirstProvider(a) == AgentConfig(a).supported_models[1].provider
\* agents[selectedAgent].supported_models[0].models[0]
FirstModel(a) == AgentConfig(a).supported_models[1].models[1]

\* the model the provider effect sets, Undefined when it sets none
ProviderEffectModel(a, p) ==
    LET sm == AgentConfig(a).supported_models
        i  == FindProvider(sm, p)
    IN  IF i # 0 /\ Len(sm[i].models) > 0 THEN sm[i].models[1] ELSE Undefined

\* history kept with a call: it was issued because the provider came back to
\* "ollama" while the error of an earlier call was on record
Reentry(prev, w) ==
    /\ w.ollamaError # NoError
    /\ prev.mounted
    /\ prev.selectedProvider # "ollama"

\* the state with its queued updates, and the requests under way
World ==
    [agents |-> agents, loading |-> loading, ollamaModels |-> ollamaModels,
     isLoadingOllamaModels |-> isLoadingOllamaModels, ollamaError |-> ollamaError,
     selectedAgent |-> selectedAgent, selectedProvider |-> selectedProvider,
     selectedModel |-> selectedModel, modelSettings |-> modelSettings,
     agentSettings |-> agentSettings,
     agentsFetch |-> agentsFetch, inflight |-> inflight, latest |-> latest]

\* the four effects of the render t, the render before it being prev, in
\* declaration order: they read the values of t and queue their setState calls
\* in w, the last call on a state variable coming last in its queue
Effects(prev, t, w) ==
    [w EXCEPT
       \* useEffect 1: fetchOllamaModels up to its await
       !.isLoadingOllamaModels = IF OllamaEffectFires(prev, t) THEN TRUE ELSE @,
       !.ollamaError = IF OllamaEffectFires(prev, t) THEN NoError ELSE @,
       !.inflight = IF OllamaEffectFires(prev, t)
                      THEN Append(@, [selectedModel |-> t.selectedModel,
                                      selectedAgent |-> t.selectedAgent,
                                      agents |-> t.agents,
                                      reentry |-> Reentry(prev, w)])
                      ELSE @,
       !.latest = IF OllamaEffectFires(prev, t) /\ @ # Untracked
                    THEN [state |-> "outstanding", error |-> NoError, list |-> << >>]
                    ELSE @,
       \* useEffect 2 (mount only): setLoading(true); fetchAgents()
       !.loading = IF ~prev.mounted THEN TRUE ELSE @,
       !.agentsFetch = IF ~prev.mounted THEN "pending" ELSE @,
       \* useEffect 3: agent change
       !.selectedProvider = IF AgentEffectFires(prev, t)
                              THEN FirstProvider(t.selectedAgent) ELSE @,
       !.modelSettings = IF AgentEffectFires(prev, t)
                           THEN ComputeDefaults(AgentConfig(t.selectedAgent).model_settings)
                           ELSE @,
       !.agentSettings = IF AgentEffectFires(prev, t)
                           THEN ComputeDefaults(AgentConfig(t.selectedAgent).agent_settings)
                           ELSE @,
       \* useEffect 3 and 4: the setSelectedModel of the provider effect is queued last
       !.selectedModel =
            IF ProviderEffectFires(prev, t)
                 /\ ProviderEffectModel(t.selectedAgent, t.selectedProvider) # Undefined
              THEN ProviderEffectModel(t.selectedAgent, t.selectedProvider)
              ELSE IF AgentEffectFires(prev, t) THEN FirstModel(t.selectedAgent) ELSE @]

\* the state and the requests become those of w
Becomes(w) ==
    /\ Len(w.inflight) <= MaxInflight
    /\ agents' = w.agents
    /\ loading' = w.loading
    /\ ollamaModels' = w.ollamaModels
    /\ isLoadingOllamaModels' = w.isLoadingOllamaModels
    /\ ollamaError' = w.ollamaError
    /\ selectedAgent' = w.selectedAgent
    /\ selectedProvider' = w.selectedProvider
    /\ selectedModel' = w.selectedModel
    /\ modelSettings' = w.modelSettings
    /\ agentSettings' = w.agentSettings
    /\ agentsFetch' = w.agentsFetch
    /\ inflight' = w.inflight
    /\ latest' = w.latest

\* the passive effects of the render on screen run (in a task of their own,
\* when no event and no render has run them before)
RunEffects ==
    /\ EffectsOwed
    /\ Becomes(Effects(rendered, tree, World))
    /\ rendered' = DepsOf(tree)
    /\ lastAction' = "RunEffects"
    /\ calls' = << >>
    /\ UNCHANGED << input, source, catalog, currentSettings, apiKey, showAdvanced, tree,
                    lastEvent, events >>

\* React renders the queued updates of the effects and of the fetch callbacks;
\* the effects of the render it replaces have run by then, those of the new
\* render are owed
Render ==
    /\ UpdatesQueued
    /\ ~EffectsOwed
    /\ tree' = State
    /\ lastAction' = "Render"
    /\ calls' = << >>
    /\ UNCHANGED << input, source, catalog, currentSettings, agents, loading, apiKey,
                    ollamaState, selection, showAdvanced, rendered, agentsFetch, inflight,
                    latest, lastEvent, events >>

\* the ten useState values of the state w
StateOf(w) ==
    [agents |-> w.agents, loading |-> w.loading, ollamaModels |-> w.ollamaModels,
     isLoadingOllamaModels |-> w.isLoadingOllamaModels, ollamaError |-> w.ollamaError,
     selectedAgent |-> w.selectedAgent, selectedProvider |-> w.selectedProvider,
     selectedModel |-> w.selectedModel, modelSettings |-> w.modelSettings,
     agentSettings |-> w.agentSettings]

\* an event handler has set state: t is the render on screen with the handler's
\* updates, w the state with them queued. React runs the effects the render on
\* screen owes, renders, and runs the effects of that render before the event
\* ends. The render of the event applies the handler's updates alone (t), or
\* every update queued by then, those of the owed effects included
Handled(t, w) ==
    LET owed == Effects(rendered, tree, w)
    IN  \E r \in {t, StateOf(owed)} :
            /\ Becomes(Effects(DepsOf(tree), r, owed))
            /\ tree' = r
            /\ rendered' = DepsOf(r)

(***************************************************************************)
(* fetchAgents                                                             *)
(***************************************************************************)
\* context.updateSettings(s): the store holds s
UpdateSettings(s) == s

\* variant of DefaultSettings: the first key of the sorted keys ("critic")
DefaultSettingsSorted(data) ==
    LET firstAgentKey == IF "critic" \in AgentKeys(data) THEN "critic" ELSE data[1]
    IN  Settings(firstAgentKey,
                 AgentConfig(firstAgentKey).supported_models[1].provider,
                 AgentConfig(firstAgentKey).supported_models[1].models[1],
                 ComputeDefaults(AgentConfig(firstAgentKey).model_settings),
                 ComputeDefaults(AgentConfig(firstAgentKey).agent_settings),
                 EmptyMap)

\* the configuration fetchAgents builds when no settings are stored; data is the answer
DefaultSettings(data) ==
    LET firstAgentKey == data[1]
        defaultProvider == AgentConfig(firstAgentKey).supported_models[1].provider
        defaultModel == AgentConfig(firstAgentKey).supported_models[1].models[1]
        defaultModelSettings == ComputeDefaults(AgentConfig(firstAgentKey).model_settings)
        defaultAgentSettings == ComputeDefaults(AgentConfig(firstAgentKey).agent_settings)
    IN  Settings(firstAgentKey, defaultProvider, defaultModel,
                 defaultModelSettings, defaultAgentSettings, EmptyMap)

\* the response of /api/agents is ok; currentSettings is the value of the mount render
FetchAgentsOk ==
    /\ agentsFetch = "pending"
    /\ agentsFetch' = "done"
    /\ agents' = catalog
    /\ loading' = FALSE
    /\ IF currentSettings = NullSettings
         THEN /\ currentSettings' = UpdateSettings(DefaultSettings(catalog))
              /\ selectedAgent' = DefaultSettings(catalog).selectedAgent
              /\ selectedProvider' = DefaultSettings(catalog).selectedProvider
              /\ selectedModel' = DefaultSettings(catalog).selectedModel
              /\ modelSettings' = DefaultSettings(catalog).modelSettings
              /\ agentSettings' = DefaultSettings(catalog).agentSettings
              /\ calls' = << "updateSettings" >>
              /\ lastEvent' = [op |-> "fetchAgentsOk", arg |-> "fresh"]
         ELSE /\ UNCHANGED << currentSettings, selectedAgent, selectedProvider,
                              selectedModel, modelSettings, agentSettings >>
              /\ calls' = << >>
              /\ lastEvent' = [op |-> "fetchAgentsOk", arg |-> "persisted"]
    /\ UNCHANGED events
    /\ lastAction' = "FetchAgentsOk"
    /\ UNCHANGED << input, showAdvanced, tree, source, latest, catalog, apiKey, ollamaState,
                    rendered, inflight >>

\* the response is not ok or the fetch rejects: logged, only loading is cleared
FetchAgentsFail ==
    /\ agentsFetch = "pending"
    /\ agentsFetch' = "done"
    /\ loading' = FALSE
    /\ UNCHANGED events
    /\ lastAction' = "FetchAgentsFail"
    /\ lastEvent' = [op |-> "fetchAgentsFail", arg |-> "none"]
    /\ calls' = << >>
    /\ UNCHANGED << input, showAdvanced, tree, source, latest, catalog, currentSettings, agents,
                    apiKey, ollamaState, selection, rendered, inflight >>

(***************************************************************************)
(* fetchOllamaModels after its await                                       *)
(***************************************************************************)
RemoveAt(q, i) == [j \in 1..(Len(q) - 1) |-> IF j < i THEN q[j] ELSE q[j + 1]]

\* variant of OllamaOkModel: a captured model that is the first tag is replaced
\* by the second
OllamaOkModelToggle(c, list, cur) ==
    IF Len(list) > 0 /\ c.selectedModel \notin Tags(list) THEN list[1].tag
    ELSE IF Len(list) > 1 /\ c.selectedModel = list[1].tag THEN list[2].tag
    ELSE IF Len(list) > 1 THEN list[1].tag
    ELSE cur

\* the model after a successful answer; c is the closure of the call, cur the state
OllamaOkModel(c, list, cur) ==
    IF Len(list) > 0 /\ c.selectedModel \notin Tags(list) THEN list[1].tag ELSE cur

\* (selectedAgent && agents?.[selectedAgent]?.supported_models.find(ollama)?.models) || []
FallbackModels(c) ==
    IF c.selectedAgent = Undefined \/ c.agents = NullAgents THEN << >>
    ELSE LET sm == AgentConfig(c.selectedAgent).supported_models
             i  == FindProvider(sm, "ollama")
         IN  IF i = 0 THEN << >> ELSE sm[i].models

\* call i of the outstanding ones is the one issued last
IsLatest(i) == latest.state = "outstanding" /\ i = Len(inflight)

\* response.ok: data.models (or []) is the list
OllamaOk(i, list) ==
    /\ ollamaModels' = list
    /\ latest' = IF IsLatest(i)
                   THEN [state |-> "resolved", error |-> NoError, list |-> list]
                   ELSE latest
    /\ selectedModel' = OllamaOkModel(inflight[i], list, selectedModel)
    /\ isLoadingOllamaModels' = FALSE
    /\ inflight' = RemoveAt(inflight, i)
    /\ UNCHANGED events
    /\ lastAction' = "OllamaOk"
    /\ lastEvent' = [op |-> "ollamaOk",
                     arg |-> IF inflight[i].reentry THEN "reentry" ELSE "none"]
    /\ calls' = << >>
    /\ UNCHANGED << input, showAdvanced, tree, source, catalog, currentSettings, agents, loading,
                    apiKey, ollamaError, selectedAgent, selectedProvider, modelSettings,
                    agentSettings, rendered, agentsFetch >>

\* the fetch rejects or the response is not ok: catch, then finally
OllamaFail(i, msg) ==
    /\ ollamaError' = msg
    /\ ollamaModels' = Synthesize(FallbackModels(inflight[i]))
    /\ latest' = IF IsLatest(i)
                   THEN [state |-> "resolved", error |-> msg,
                         list |-> Synthesize(FallbackModels(inflight[i]))]
                   ELSE latest
    /\ isLoadingOllamaModels' = FALSE
    /\ inflight' = RemoveAt(inflight, i)
    /\ UNCHANGED events
    /\ lastAction' = "OllamaFail"
    /\ lastEvent' = [op |-> "ollamaFail",
                     arg |-> IF inflight[i].reentry THEN "reentry" ELSE "none"]
    /\ calls' = << >>
    /\ UNCHANGED << input, showAdvanced, tree, source, catalog, currentSettings, agents, loading,
                    apiKey, selection, rendered, agentsFetch >>

OllamaResolve ==
    \E i \in 1..Len(inflight) :
        \/ \E list \in OllamaLists : OllamaOk(i, list)
        \/ \E msg \in OllamaFailures : OllamaFail(i, msg)

(***************************************************************************)
(* User input: every handler is the one of the render on screen            *)
(***************************************************************************)
\* variant of FormShown: the guard tests loading alone
FormShownLoadingOnly == tree.selectedAgent # Undefined /\ ~tree.loading

\* neither early return of the component is taken: the form is on screen
FormShown == tree.selectedAgent # Undefined /\ ~tree.loading /\ tree.agents # NullAgents

\* the Apply element is on screen
CanClickSave == FormShown

\* the three Selects are on screen: an item can be picked
CanPick == FormShown

\* one more user input
Input == events < MaxEvents /\ events' = events + 1

\* the items of the provider Select
ProviderOptions ==
    LET sm == AgentConfig(tree.selectedAgent).supported_models
    IN  { sm[i].provider : i \in 1..Len(sm) }

\* value={selectedProvider ?? agents[selectedAgent].supported_models[0].provider}
ProviderValue ==
    IF tree.selectedProvider = Undefined THEN FirstProvider(tree.selectedAgent)
    ELSE tree.selectedProvider

\* value={selectedModel ?? agents[selectedAgent].supported_models[0].models[0]}
ModelValue ==
    IF tree.selectedModel = Undefined THEN FirstModel(tree.selectedAgent)
    ELSE tree.selectedModel

\* .find((m) => m.provider === selectedProvider)?.models.map(...)
StaticModels ==
    LET sm == AgentConfig(tree.selectedAgent).supported_models
        i  == FindProvider(sm, tree.selectedProvider)
    IN  IF i = 0 THEN {} ELSE { sm[i].models[j] : j \in 1..Len(sm[i].models) }

\* the enabled items of the model Select
ModelOptions ==
    IF tree.selectedProvider = "ollama"
      THEN IF tree.isLoadingOllamaModels THEN {}
           ELSE IF tree.ollamaError # NoError THEN StaticModels
           ELSE Tags(tree.ollamaModels)
      ELSE StaticModels

\* agent Select onValueChange
SetSelectedAgent(value) ==
    /\ Input
    /\ CanPick
    /\ value \in AgentKeys(tree.agents) /\ value # tree.selectedAgent
    /\ Handled([tree EXCEPT !.selectedAgent = value],
               [World EXCEPT !.selectedAgent = value])
    /\ lastAction' = "SetSelectedAgent"
    /\ lastEvent' = [op |-> "setSelectedAgent", arg |-> value]
    /\ calls' = << >>
    /\ UNCHANGED << input, showAdvanced, source, catalog, currentSettings, apiKey >>

\* provider Select onValueChange
SetSelectedProvider(value) ==
    /\ Input
    /\ CanPick
    /\ value \in ProviderOptions /\ value # ProviderValue
    /\ Handled([tree EXCEPT !.selectedProvider = value],
               [World EXCEPT !.selectedProvider = value])
    /\ lastAction' = "SetSelectedProvider"
    /\ lastEvent' = [op |-> "setSelectedProvider", arg |-> value]
    /\ calls' = << >>
    /\ UNCHANGED << input, showAdvanced, source, catalog, currentSettings, apiKey >>

\* variant of SetSelectedModel: the choice is written to the settings store at once
SetSelectedModelPublishing(value) ==
    /\ Input
    /\ CanPick
    /\ value \in ModelOptions /\ value # ModelValue
    /\ Handled([tree EXCEPT !.selectedModel = value],
               [World EXCEPT !.selectedModel = value])
    /\ currentSettings' = UpdateSettings([currentSettings EXCEPT !.selectedModel = value])
    /\ lastAction' = "SetSelectedModel"
    /\ lastEvent' = [op |-> "setSelectedModel", arg |-> value]
    /\ calls' = << "updateSettings" >>
    /\ UNCHANGED << input, showAdvanced, source, catalog, apiKey >>

\* model Select onValueChange
SetSelectedModel(value) ==
    /\ Input
    /\ CanPick
    /\ value \in ModelOptions /\ value # ModelValue
    /\ Handled([tree EXCEPT !.selectedModel = value],
               [World EXCEPT !.selectedModel = value])
    /\ lastAction' = "SetSelectedModel"
    /\ lastEvent' = [op |-> "setSelectedModel", arg |-> value]
    /\ calls' = << >>
    /\ UNCHANGED << input, showAdvanced, source, catalog, currentSettings, apiKey >>

\* the Advanced Settings button: setShowAdvanced((prev) => !prev)
ToggleAdvanced ==
    /\ Input
    /\ FormShown
    /\ showAdvanced' = ~showAdvanced
    /\ Handled(tree, World)
    /\ lastAction' = "ToggleAdvanced"
    /\ lastEvent' = [op |-> "toggleAdvanced", arg |-> "none"]
    /\ calls' = << >>
    /\ UNCHANGED << input, source, catalog, currentSettings, apiKey >>

\* handleSettingChange(settingType, key, value) from a SettingInput of the agent
\* of the render on screen; the SettingInputs are rendered inside
\* {showAdvanced && (...)}. The updater (prev) => ({ ...(prev || {}), [key]: value })
\* is applied in queue order, after the updates queued before it, for the
\* state, and to the rendered value when the event renders it alone (Handled)
HandleSettingChange(settingType, key, value) ==
    /\ Input
    /\ FormShown /\ showAdvanced
    /\ IF settingType = "model"
         THEN /\ key \in SchemaKeys(AgentConfig(tree.selectedAgent).model_settings)
              /\ Handled([tree EXCEPT !.modelSettings = Put(@, key, value)],
                         [World EXCEPT !.modelSettings = Put(@, key, value)])
         ELSE /\ key \in SchemaKeys(AgentConfig(tree.selectedAgent).agent_settings)
              /\ Handled([tree EXCEPT !.agentSettings = Put(@, key, value)],
                         [World EXCEPT !.agentSettings = Put(@, key, value)])
    /\ lastAction' = "HandleSettingChange"
    /\ lastEvent' = [op |-> settingType, arg |-> key]
    /\ calls' = << >>
    /\ UNCHANGED << input, showAdvanced, source, catalog, currentSettings, apiKey >>

\* the API key block is rendered
KeyBlockShown == tree.selectedProvider # Undefined /\ tree.selectedProvider # "ollama"

\* API key Input onChange
SetApiKey(value) ==
    /\ Input
    /\ FormShown /\ KeyBlockShown
    /\ value # apiKey
    /\ apiKey' = value
    /\ Handled(tree, World)
    /\ lastAction' = "SetApiKey"
    /\ lastEvent' = [op |-> "setApiKey", arg |-> value]
    /\ calls' = << >>
    /\ UNCHANGED << input, showAdvanced, source, catalog, currentSettings >>

\* { ...currentSettings }
Spread(s) ==
    IF s = NullSettings
      THEN Settings(Undefined, Undefined, Undefined, UndefinedMap, UndefinedMap, EmptyMap)
      ELSE s

\* variant of SavedKeySettings: the key map holds the saved key alone
SavedKeySettingsOnlyThis(s, provider, key) ==
    [Spread(s) EXCEPT !.providerApiKeys = [k \in {provider} |-> key]]

\* what the Save button of the key field writes
SavedKeySettings(s, provider, key) ==
    [Spread(s) EXCEPT !.providerApiKeys = Put(ApiKeys(s), provider, key)]

\* what the Clear Key button writes
ClearedKeySettings(s, provider) ==
    [s EXCEPT !.providerApiKeys = Delete(s.providerApiKeys, provider)]

\* Save onClick of the key field
SaveApiKey ==
    /\ Input
    /\ FormShown /\ KeyBlockShown
    /\ apiKey # ""
    /\ currentSettings' =
          UpdateSettings(SavedKeySettings(currentSettings, tree.selectedProvider, apiKey))
    /\ apiKey' = ""
    /\ Handled(tree, World)
    /\ lastAction' = "SaveApiKey"
    /\ lastEvent' = [op |-> "saveApiKey", arg |-> tree.selectedProvider]
    /\ calls' = << "updateSettings" >>
    /\ UNCHANGED << input, showAdvanced, source, catalog >>

\* Clear Key onClick
ClearApiKey ==
    /\ Input
    /\ FormShown /\ KeyBlockShown
    /\ tree.selectedProvider \in DOMAIN ApiKeys(currentSettings)
    /\ ApiKeys(currentSettings)[tree.selectedProvider] # ""
    /\ currentSettings' =
          UpdateSettings(ClearedKeySettings(currentSettings, tree.selectedProvider))
    /\ Handled(tree, World)
    /\ lastAction' = "ClearApiKey"
    /\ lastEvent' = [op |-> "clearApiKey", arg |-> tree.selectedProvider]
    /\ calls' = << "updateSettings" >>
    /\ UNCHANGED << input, showAdvanced, source, catalog, apiKey >>

(***************************************************************************)
(* handleSave                                                              *)
(***************************************************************************)
\* variant of SaveRejected: agentSettings is not tested
SaveRejectedFourFields(a, p, m, ms, as) ==
    \/ a = Undefined
    \/ p = Undefined
    \/ m = Undefined
    \/ ms = UndefinedMap

\* the early return of handleSave
SaveRejected(a, p, m, ms, as) ==
    \/ a = Undefined
    \/ p = Undefined
    \/ m = Undefined
    \/ ms = UndefinedMap
    \/ as = UndefinedMap

\* variant of SavedSettings: providerApiKeys: {}
SavedSettingsNoKeys(s, a, p, m, ms, as) == Settings(a, p, m, ms, as, EmptyMap)

\* providerApiKeys: currentSettings?.providerApiKeys || {}
SavedSettings(s, a, p, m, ms, as) == Settings(a, p, m, ms, as, ApiKeys(s))

\* variant of CommitCalls: the two resets come before the write
CommitCallsResetFirst == << "clearInitialState", "resetSession", "updateSettings",
                            "closeSettings", "router.push" >>

\* the calls of a commit, in order
CommitCalls == << "updateSettings", "clearInitialState", "resetSession",
                  "closeSettings", "router.push" >>

\* handleSave of the render on screen; the early return sets no state, so React
\* has nothing to render and runs no effect
HandleSave ==
    /\ Input
    /\ CanClickSave
    /\ IF SaveRejected(tree.selectedAgent, tree.selectedProvider, tree.selectedModel,
                       tree.modelSettings, tree.agentSettings)
         THEN /\ UNCHANGED << currentSettings, agents, loading, ollamaState, selection,
                              agentsFetch, inflight, latest, tree, rendered >>
              /\ calls' = << >>
              /\ lastEvent' = [op |-> "handleSave", arg |-> "rejected"]
         ELSE /\ currentSettings' = UpdateSettings(
                     SavedSettings(currentSettings, tree.selectedAgent,
                                   tree.selectedProvider, tree.selectedModel,
                                   tree.modelSettings, tree.agentSettings))
              /\ Handled(tree, World)
              /\ calls' = CommitCalls
              /\ lastEvent' = [op |-> "handleSave", arg |-> "committed"]
    /\ lastAction' = "HandleSave"
    /\ UNCHANGED << input, showAdvanced, source, catalog, apiKey >>

Next ==
    \/ RunEffects
    \/ Render
    \/ FetchAgentsOk
    \/ FetchAgentsFail
    \/ OllamaResolve
    \/ \E value \in AgentKeys(catalog) : SetSelectedAgent(value)
    \/ \E value \in {"openai", "anthropic", "ollama"} : SetSelectedProvider(value)
    \/ \E value \in ModelIds : SetSelectedModel(value)
    \/ \E settingType \in {"model", "agent"}, key \in {"temperature", "max_tokens", "style"},
          value \in EditValues : HandleSettingChange(settingType, key, value)
    \/ ToggleAdvanced
    \/ \E value \in ApiKeyInputs : SetApiKey(value)
    \/ SaveApiKey
    \/ ClearApiKey
    \/ HandleSave

Spec == Init /\ [][Next]_vars

(***************************************************************************)
(* Overlapping calls, with the history of the call issued last             *)
(***************************************************************************)
InitCalls == DrawerInit /\ input = NoInput /\ source = AnySource /\ latest = NoCall

\* the steps that issue and resolve calls, and the selects that lead to them
NextCalls ==
    \/ RunEffects
    \/ Render
    \/ FetchAgentsOk
    \/ FetchAgentsFail
    \/ OllamaResolve
    \/ \E value \in AgentKeys(catalog) : SetSelectedAgent(value)
    \/ \E value \in {"openai", "anthropic", "ollama"} : SetSelectedProvider(value)
    \/ \E value \in ModelIds : SetSelectedModel(value)

SpecCalls == InitCalls /\ [][NextCalls]_vars

(***************************************************************************)
(* A source that answers every call alike                                  *)
(***************************************************************************)
\* the answers /api/ollama/models may give to every call of a session
SteadySources ==
    { [kind |-> "ok", list |-> list, msg |-> ""] : list \in OllamaLists }
    \cup { [kind |-> "fail", list |-> << >>, msg |-> msg] : msg \in OllamaFailures }

InitSteady ==
    DrawerInit /\ input = NoInput /\ source \in SteadySources /\ latest = Untracked

\* a call resolves with the answer of the session
OllamaResolveSteady ==
    \E i \in 1..Len(inflight) :
        IF source.kind = "ok" THEN OllamaOk(i, source.list) ELSE OllamaFail(i, source.msg)

\* the answers of /api/agents
FetchAgentsResolve == FetchAgentsOk \/ FetchAgentsFail

\* the steps that touch a dependency of the fetch effect
NextSteady ==
    \/ RunEffects
    \/ Render
    \/ FetchAgentsResolve
    \/ OllamaResolveSteady
    \/ \E value \in AgentKeys(catalog) : SetSelectedAgent(value)
    \/ \E value \in {"openai", "anthropic", "ollama"} : SetSelectedProvider(value)
    \/ \E value \in ModelIds : SetSelectedModel(value)

\* React runs the owed effects and renders the queued updates, and every
\* request is answered
SpecSteady ==
    /\ InitSteady
    /\ [][NextSteady]_vars
    /\ WF_vars(RunEffects)
    /\ WF_vars(Render)
    /\ WF_vars(FetchAgentsResolve)
    /\ WF_vars(OllamaResolveSteady)

(***************************************************************************)
(* SettingInput: one integer field                                         *)
(***************************************************************************)
Min(a, b) == IF a <= b THEN a ELSE b
Max(a, b) == IF a >= b THEN a ELSE b

\* min and max taken the wrong way round
sanitizeNumberSwapped(config, value) ==
    LET v1 == IF config.hasMax THEN Max(value, config.max) ELSE value
    IN  IF config.hasMin THEN Min(v1, config.min) ELSE v1

sanitizeNumber(config, value) ==
    LET v1 == IF config.hasMax THEN Min(value, config.max) ELSE value
    IN  IF config.hasMin THEN Max(v1, config.min) ELSE v1

Limits == (0 - MaxLimit)..MaxLimit

\* configs of integer settings: each of min and max may be left out
InputConfigs ==
    { [hasMin |-> FALSE, min |-> 0, hasMax |-> FALSE, max |-> 0, default |-> 0] }
    \cup { [hasMin |-> TRUE, min |-> lo, hasMax |-> FALSE, max |-> 0, default |-> 0] :
              lo \in Limits }
    \cup { [hasMin |-> FALSE, min |-> 0, hasMax |-> TRUE, max |-> hi, default |-> 0] :
              hi \in Limits }
    \cup { [hasMin |-> TRUE, min |-> lo, hasMax |-> TRUE, max |-> hi, default |-> 0] :
              lo \in Limits, hi \in Limits }

\* parseInt(e.target.value): a number, or NaN
TypedValues ==
    { [nan |-> TRUE, n |-> 0] }
    \cup { [nan |-> FALSE, n |-> n] : n \in (0 - MaxTyped)..MaxTyped }

\* the setting the number field edits: the model setting of writer
InputKey == "temperature"

\* what the first load stores and selects with nothing stored, the schema
\* entry of InputKey being the integer config c
InputSettings(c) ==
    [DefaultSettings(<< "writer", "critic", "local" >>)
        EXCEPT !.modelSettings = Put(EmptyMap, InputKey, c.default)]

\* the form at rest after a first load with nothing stored, Advanced Settings
\* opened by one click: the field shows value={modelSettings?.[key] ?? config.default}
InitInput ==
    \E c \in InputConfigs :
        /\ catalog = << "writer", "critic", "local" >>
        /\ currentSettings = InputSettings(c)
        /\ agents = catalog
        /\ loading = FALSE
        /\ apiKey = ""
        /\ showAdvanced = TRUE
        /\ ollamaModels = << >>
        /\ isLoadingOllamaModels = FALSE
        /\ ollamaError = NoError
        /\ selectedAgent = currentSettings.selectedAgent
        /\ selectedProvider = currentSettings.selectedProvider
        /\ selectedModel = currentSettings.selectedModel
        /\ modelSettings = currentSettings.modelSettings
        /\ agentSettings = currentSettings.agentSettings
        /\ tree = State
        /\ rendered = DepsOf(tree)
        /\ agentsFetch = "done"
        /\ inflight = << >>
        /\ lastAction = "ToggleAdvanced"
        /\ lastEvent = [op |-> "toggleAdvanced", arg |-> "none"]
        /\ calls = << >>
        /\ events = 1
        /\ source = AnySource
        /\ latest = Untracked
        /\ input = [config |-> c, text |-> [nan |-> FALSE, n |-> c.default],
                    value |-> c.default, typed |-> [nan |-> FALSE, n |-> c.default],
                    once |-> c.default, stage |-> "shown"]

\* onChange(v) of the field: handleSettingChange('model', key, v)
SettingWritten(v) ==
    /\ Handled([tree EXCEPT !.modelSettings = Put(@, InputKey, v)],
               [World EXCEPT !.modelSettings = Put(@, InputKey, v)])
    /\ lastEvent' = [op |-> "model", arg |-> InputKey]

\* onChange of the number field, the text parsing to typed. Text that does not
\* parse sets no state; the field then keeps that text, or React puts back the
\* value it was rendered with
InputChange(typed) ==
    /\ input.stage # "none"
    /\ FormShown /\ showAdvanced
    /\ IF typed.nan
         THEN /\ \E text \in {typed, [nan |-> FALSE, n |-> input.value]} :
                    input' = [input EXCEPT !.text = text, !.typed = typed,
                                           !.stage = "changed"]
              /\ lastEvent' = [op |-> "none", arg |-> InputKey]
              /\ UNCHANGED << agents, loading, ollamaState, selection, agentsFetch,
                              inflight, latest, tree, rendered >>
         ELSE LET v == sanitizeNumber(input.config, typed.n)
              IN  /\ input' = [input EXCEPT !.text = [nan |-> FALSE, n |-> v],
                                            !.value = v, !.typed = typed, !.once = v,
                                            !.stage = "changed"]
                  /\ SettingWritten(v)
    /\ lastAction' = "InputChange"
    /\ calls' = << >>
    /\ UNCHANGED << catalog, currentSettings, apiKey, showAdvanced, source, events >>

\* onBlur: parseInt of the text the field holds; the history keeps the text of
\* the change before the blur, or this text when nothing was typed since
InputBlur ==
    /\ input.stage # "none"
    /\ FormShown /\ showAdvanced
    /\ LET v == IF input.text.nan THEN input.config.default
                 ELSE sanitizeNumber(input.config, input.text.n)
           untouched == input.stage # "changed"
       IN  /\ input' = [input EXCEPT !.text = [nan |-> FALSE, n |-> v], !.value = v,
                                     !.typed = IF untouched THEN input.text ELSE @,
                                     !.once = IF untouched THEN v ELSE @,
                                     !.stage = "blurred"]
           /\ SettingWritten(v)
    /\ lastAction' = "InputBlur"
    /\ calls' = << >>
    /\ UNCHANGED << catalog, currentSettings, apiKey, showAdvanced, source, events >>

\* any sequence of changes and blurs of the field
NextInput ==
    \/ \E typed \in TypedValues : InputChange(typed)
    \/ InputBlur

SpecInput == InitInput /\ [][NextInput]_vars

(***************************************************************************)
(* Properties                                                              *)
(***************************************************************************)
\* the default declared for key k in a schema
SchemaDefault(schema, k) == schema[CHOOSE i \in 1..Len(schema) : schema[i].key = k].default

\* m has exactly the keys of the schema, each mapped to its declared default
IsDefaultsOf(m, schema) ==
    /\ m # UndefinedMap
    /\ DOMAIN m = SchemaKeys(schema)
    /\ \A k \in DOMAIN m : m[k] = SchemaDefault(schema, k)

\* C1: once the effects that follow a change of the selected agent to b have all run,
\* the provider is b's first supported entry's provider and the model that entry's
\* first model, in catalog order, whatever was selected before (first provider not ollama).
C1_AgentSwitchSelectsFirst ==
    \A b \in AgentKeys(catalog) :
        ( /\ lastEvent = [op |-> "setSelectedAgent", arg |-> b]
          /\ ~Pending
          /\ AgentConfig(b).supported_models[1].provider # "ollama" )
        => /\ selectedAgent = b
           /\ selectedProvider = AgentConfig(b).supported_models[1].provider
           /\ selectedModel = AgentConfig(b).supported_models[1].models[1]

\* the switch to critic has settled on anthropic / claude-3
C1_Witness ==
    /\ lastEvent = [op |-> "setSelectedAgent", arg |-> "critic"]
    /\ ~Pending
    /\ selectedProvider = "anthropic" /\ selectedModel = "claude-3"

\* C2: once the effects that follow a change of the selected agent to b have all run,
\* both value mappings are exactly the defaults of b's schemas; nothing of the
\* previous agent's mappings survives.
C2_AgentSwitchResetsParams ==
    \A b \in AgentKeys(catalog) :
        (lastEvent = [op |-> "setSelectedAgent", arg |-> b] /\ ~Pending)
        => /\ IsDefaultsOf(modelSettings, AgentConfig(b).model_settings)
           /\ IsDefaultsOf(agentSettings, AgentConfig(b).agent_settings)

\* the scenario of the specification: critic after writer
C2_Witness ==
    /\ lastEvent = [op |-> "setSelectedAgent", arg |-> "critic"]
    /\ ~Pending
    /\ modelSettings = EmptyMap
    /\ agentSettings = [style |-> "terse"]

\* C3: an answer of the Ollama fetch (success or failure) that is applied when the
\* selected provider is no longer ollama, and the model for the now selected provider
\* has been chosen (no effect owed, no update queued), leaves the model as it was.
C3_StaleAnswerDiscarded ==
    [][ (lastAction' \in {"OllamaOk", "OllamaFail"} /\ selectedProvider # "ollama" /\ ~Pending)
        => selectedModel' = selectedModel ]_vars

\* C4: a change of the selected provider to another provider of the same agent,
\* and the effects and renders that follow it, leave both value mappings exactly
\* as they were: same keys, same values.
C4_ProviderChangeKeepsParams ==
    [][ lastEvent'.op = "setSelectedProvider"
        => modelSettings' = modelSettings /\ agentSettings' = agentSettings ]_vars

\* one of the five fields handleSave requires is absent in the render on screen
SomeFieldAbsent ==
    \/ tree.selectedAgent = Undefined
    \/ tree.selectedProvider = Undefined
    \/ tree.selectedModel = Undefined
    \/ tree.modelSettings = UndefinedMap
    \/ tree.agentSettings = UndefinedMap

\* C5: handleSave with one of the five fields absent writes nothing to the settings
\* store, makes no external call and leaves the in-memory selection unchanged, in
\* the state and on screen.
C5_IncompleteCommitRejected ==
    [][ (lastAction' = "HandleSave" /\ SomeFieldAbsent)
        => /\ currentSettings' = currentSettings
           /\ calls' = << >>
           /\ selection' = selection
           /\ tree' = tree ]_vars

\* a commit was attempted with only agentSettings absent
C5_Witness ==
    /\ lastAction = "HandleSave"
    /\ tree.agentSettings = UndefinedMap
    /\ tree.selectedAgent # Undefined /\ tree.selectedProvider # Undefined
    /\ tree.selectedModel # Undefined /\ tree.modelSettings # UndefinedMap
    /\ calls = << >>

\* the calls of the last step to the store and to the two resets, in order
StoreAndResetCalls ==
    SelectSeq(calls, LAMBDA c : c \in {"updateSettings", "clearInitialState", "resetSession"})

\* C6: a commit that is not rejected writes the store once, with the five fields of
\* the selection the form shows when Apply is clicked (the render the click lands
\* on), then calls clearInitialState, then resetSession, each once; no step calls
\* a reset without that write before it.
C6_CommitWritesThenResets ==
    [][ /\ (lastAction' = "HandleSave" /\ ~SomeFieldAbsent)
           => /\ StoreAndResetCalls' =
                    << "updateSettings", "clearInitialState", "resetSession" >>
              /\ currentSettings'.selectedAgent = tree.selectedAgent
              /\ currentSettings'.selectedProvider = tree.selectedProvider
              /\ currentSettings'.selectedModel = tree.selectedModel
              /\ currentSettings'.modelSettings = tree.modelSettings
              /\ currentSettings'.agentSettings = tree.agentSettings
        /\ (\E i \in 1..Len(calls') : calls'[i] \in {"clearInitialState", "resetSession"})
           => StoreAndResetCalls' =
                 << "updateSettings", "clearInitialState", "resetSession" >> ]_vars

\* a commit of an edited, non-first selection
C6_Witness ==
    /\ lastAction = "HandleSave"
    /\ calls # << >>
    /\ currentSettings.selectedAgent = "local"
    /\ currentSettings.selectedProvider = "anthropic"
    /\ currentSettings.selectedModel = "claude-3"

\* C7: a commit leaves the stored per-provider credentials as they were.
C7_CommitKeepsCredentials ==
    [][ (lastAction' = "HandleSave" /\ calls' # << >>)
        => ApiKeys(currentSettings') = ApiKeys(currentSettings) ]_vars

\* a commit made while a credential saved in this session is stored
C7_Witness ==
    /\ lastAction = "HandleSave"
    /\ calls # << >>
    /\ "openai" \in DOMAIN ApiKeys(currentSettings)
    /\ ApiKeys(currentSettings)["openai"] = "sk-1"

\* C8: with a stored configuration that is valid against the catalog, once the catalog
\* has loaded and the effects have run, the in-memory selection equals the stored one.
C8_SeedsFromPersisted ==
    ( /\ lastEvent = [op |-> "fetchAgentsOk", arg |-> "persisted"]
      /\ ~Pending
      /\ currentSettings \in PersistedFull )
    => /\ selectedAgent = currentSettings.selectedAgent
       /\ selectedProvider = currentSettings.selectedProvider
       /\ selectedModel = currentSettings.selectedModel
       /\ modelSettings = currentSettings.modelSettings
       /\ agentSettings = currentSettings.agentSettings

\* C9: with nothing stored, the catalog answer selects the first agent in catalog
\* order, its first provider, that provider's first model and the schema defaults,
\* and writes the same configuration with no credentials to the store.
C9_FreshLoadSelectsFirst ==
    lastEvent = [op |-> "fetchAgentsOk", arg |-> "fresh"]
    => LET first == AgentConfig(catalog[1])
       IN  /\ selectedAgent = catalog[1]
           /\ selectedProvider = first.supported_models[1].provider
           /\ selectedModel = first.supported_models[1].models[1]
           /\ IsDefaultsOf(modelSettings, first.model_settings)
           /\ IsDefaultsOf(agentSettings, first.agent_settings)
           /\ currentSettings = Settings(selectedAgent, selectedProvider, selectedModel,
                                         modelSettings, agentSettings, EmptyMap)

\* the scenario of the specification: writer / openai / gpt-4 / temperature 0.7
C9_Witness ==
    /\ lastEvent = [op |-> "fetchAgentsOk", arg |-> "fresh"]
    /\ ~Pending
    /\ currentSettings = Settings("writer", "openai", "gpt-4",
                                  [temperature |-> "0.7"], EmptyMap, EmptyMap)
    /\ selectedAgent = "writer" /\ modelSettings = [temperature |-> "0.7"]

\* C10: for every agent of the catalog the mapping derived from each of its schemas
\* has exactly the schema's keys, each with its declared default; so have the mappings
\* stored by the first load and those in memory from the change of agent on (the
\* agent effect runs before the event of the change ends).
C10_DefaultsMatchSchema ==
    /\ \A a \in AgentKeys(catalog) :
          /\ IsDefaultsOf(ComputeDefaults(AgentConfig(a).model_settings),
                          AgentConfig(a).model_settings)
          /\ IsDefaultsOf(ComputeDefaults(AgentConfig(a).agent_settings),
                          AgentConfig(a).agent_settings)
    /\ lastAction = "FetchAgentsOk" /\ calls # << >>
       => /\ IsDefaultsOf(currentSettings.modelSettings, AgentConfig(catalog[1]).model_settings)
          /\ IsDefaultsOf(currentSettings.agentSettings, AgentConfig(catalog[1]).agent_settings)
    /\ lastEvent.op = "setSelectedAgent"
       => /\ IsDefaultsOf(modelSettings, AgentConfig(selectedAgent).model_settings)
          /\ IsDefaultsOf(agentSettings, AgentConfig(selectedAgent).agent_settings)

\* the two-key model schema of local was derived by the agent effect
C10_Witness ==
    /\ lastAction = "SetSelectedAgent"
    /\ lastEvent = [op |-> "setSelectedAgent", arg |-> "local"]
    /\ modelSettings = [temperature |-> "0.2", max_tokens |-> "1000"]
    /\ agentSettings = [style |-> "verbose"]

\* C11: sanitizeNumber is idempotent; with both limits set and min <= max its
\* result lies in [min, max], equal to the typed number when that is inside
\* and to the nearer limit when it is outside; with no limit the number is
\* returned as typed.
C11_SanitizeClamps ==
    LET c == input.config
        v == input.typed.n
        r == input.once
    IN  /\ input.stage \in {"changed", "blurred"} /\ ~input.typed.nan =>
              /\ c.hasMin /\ c.hasMax /\ c.min <= c.max =>
                    /\ c.min <= r /\ r <= c.max
                    /\ (c.min <= v /\ v <= c.max) => r = v
                    /\ v < c.min => r = c.min
                    /\ v > c.max => r = c.max
              /\ ~c.hasMin /\ ~c.hasMax => r = v
        /\ input.stage = "blurred" /\ ~input.typed.nan => input.value = r

C11_Witness ==
    /\ input.stage = "blurred"
    /\ input.config.hasMin /\ input.config.hasMax
    /\ input.config.min < input.config.max
    /\ ~input.typed.nan /\ input.typed.n > input.config.max
    /\ input.value = input.config.max

\* C12: when the provider comes back to "ollama" after a call has failed, the
\* effects of that render issue a new call, clear the recorded error and set
\* loading; and when that call succeeds the error is absent and the list is the
\* fetched one.
C12_ReentryRefetches ==
    [][ /\ (Len(inflight') > Len(inflight) /\ inflight'[Len(inflight')].reentry) =>
              ollamaError' = NoError /\ isLoadingOllamaModels'
        /\ (lastAction' = "OllamaOk" /\ lastEvent'.arg = "reentry") =>
              ollamaError' = NoError /\ ollamaModels' \in OllamaLists ]_vars

\* C13: once the effects that follow a change of the selected provider to p, an
\* entry of the current agent other than "ollama", have all run, the selected
\* model is the first model of that entry, whatever it was before.
C13_ProviderChangeSelectsFirstModel ==
    \A p \in {"openai", "anthropic"} :
        (lastEvent = [op |-> "setSelectedProvider", arg |-> p] /\ ~Pending)
        => \E i \in 1..Len(AgentConfig(selectedAgent).supported_models) :
              LET e == AgentConfig(selectedAgent).supported_models[i]
              IN  e.provider = p /\ selectedProvider = p /\ selectedModel = e.models[1]

\* C14: when a call answers with a list that is not empty while the provider is
\* "ollama", the model selected at that moment is kept if it is among the tags
\* of the list and becomes the first tag otherwise; overlapping calls included.
\* Stated for answers that land when no effect is owed and no update is queued.
C14_ValidChoiceKept ==
    [][ (lastAction' = "OllamaOk" /\ selectedProvider = "ollama" /\ ~Pending
            /\ Len(ollamaModels') > 0)
        => selectedModel' = IF selectedModel \in Tags(ollamaModels')
                              THEN selectedModel
                              ELSE ollamaModels'[1].tag ]_vars

\* the static "ollama" models of the agent selected now, in catalog order;
\* none while the catalog is not loaded or the agent has no such entry
ActiveOllamaModels ==
    IF selectedAgent = Undefined \/ agents = NullAgents THEN << >>
    ELSE LET sm == AgentConfig(selectedAgent).supported_models
             i  == CHOOSE j \in 0..Len(sm) :
                      IF \E n \in 1..Len(sm) : sm[n].provider = "ollama"
                        THEN j > 0 /\ sm[j].provider = "ollama"
                        ELSE j = 0
         IN  IF i = 0 THEN << >> ELSE sm[i].models

\* C15: when a call fails while the provider is "ollama", the error is recorded,
\* the list becomes one item per static "ollama" model of the active agent
\* (tag and base name both the model id, catalog order; empty without such an
\* entry), loading is cleared and the selected model stays as it is.
\* Stated for failures that land when no effect is owed and no update is queued.
C15_FailureFallsBack ==
    [][ (lastAction' = "OllamaFail" /\ selectedProvider = "ollama" /\ ~Pending)
        => /\ ollamaError' \in OllamaFailures
           /\ Len(ollamaModels') = Len(ActiveOllamaModels)
           /\ \A n \in 1..Len(ActiveOllamaModels) :
                 ollamaModels'[n] = [tag |-> ActiveOllamaModels[n],
                                     base_name |-> ActiveOllamaModels[n]]
           /\ isLoadingOllamaModels' = FALSE
           /\ selectedModel' = selectedModel ]_vars

\* 1 when the provider is "ollama" in render t and it was not in the render
\* before it, or the agent or the catalog differ from those of that render
BecameOllama(prev, t) ==
    IF /\ t.selectedProvider = "ollama"
       /\ \/ ~prev.mounted
          \/ prev.selectedProvider # t.selectedProvider
          \/ prev.selectedAgent # t.selectedAgent
          \/ prev.agents # t.agents
      THEN 1 ELSE 0

\* C16: a call is started exactly by the provider becoming "ollama": at mount,
\* or by a change of provider, agent or catalog that leaves "ollama" active.
\* None is started while the provider is not "ollama", and none by a change of
\* the selected model alone.
\* In every step the number of calls started is the number of renders whose
\* effects ran in it (the render on screen when they were owed, then the render
\* of the event) and in which the provider had become "ollama".
C16_FetchOnlyOnBecomingOllama ==
    [][ lastAction' \notin {"OllamaOk", "OllamaFail"} =>
          Len(inflight') - Len(inflight) =
              IF rendered' = rendered THEN 0
              ELSE BecameOllama(rendered, tree) + BecameOllama(DepsOf(tree), tree') ]_vars

\* the five selection fields of the settings store
StoredSelection(s) ==
    << Field(s, "selectedAgent"), Field(s, "selectedProvider"), Field(s, "selectedModel"),
       MapField(s, "modelSettings"), MapField(s, "agentSettings") >>

\* C17: saving a key adds or overwrites the entry of the selected provider and
\* clearing removes it; the keys of the other providers, the stored agent,
\* provider, model and value mappings, and the draft held by the form are
\* unchanged, so neither button publishes draft edits.
\* The selected provider is the one the form shows when the button is clicked.
\* The draft, in the state and on screen, is compared for clicks that land when
\* no effect is owed and no update is queued: React runs owed effects and
\* renders queued updates in any event, and those are not the button's doing.
C17_KeyButtonsTouchOneKey ==
    [][ LET old == ApiKeys(currentSettings)
            new == ApiKeys(currentSettings')
            others == DOMAIN old \ {tree.selectedProvider}
        IN  /\ lastAction' = "SaveApiKey" =>
                  /\ DOMAIN new = DOMAIN old \cup {tree.selectedProvider}
                  /\ new[tree.selectedProvider] = apiKey
            /\ lastAction' = "ClearApiKey" =>
                  DOMAIN new = others
            /\ lastAction' \in {"SaveApiKey", "ClearApiKey"} =>
                  /\ \A q \in others : new[q] = old[q]
                  /\ StoredSelection(currentSettings') = StoredSelection(currentSettings)
                  /\ ~Pending => (tree' = tree /\ selection' = selection) ]_vars

\* the key of anthropic was overwritten next to the stored openai key, while
\* the draft model differs from the stored one
C17_Witness ==
    /\ lastAction = "SaveApiKey"
    /\ ~Pending
    /\ ApiKeys(currentSettings) = [openai |-> "sk-0", anthropic |-> "sk-1"]
    /\ selectedModel # currentSettings.selectedModel

\* C18: in every state with the catalog loaded, no effect owed and no call
\* outstanding, the selected provider is one of the selected agent's entries
\* and, unless it is "ollama", the selected model is one of that entry's
\* models; a commit made in such a state stores a consistent triple.
C18_SettledSelectionConsistent ==
    (agents # NullAgents /\ selectedAgent # Undefined /\ ~Pending /\ inflight = << >>)
    => \E i \in 1..Len(AgentConfig(selectedAgent).supported_models) :
          LET e == AgentConfig(selectedAgent).supported_models[i]
          IN  /\ e.provider = selectedProvider
              /\ selectedProvider # "ollama" =>
                    \E n \in 1..Len(e.models) : e.models[n] = selectedModel

\* C19: handleSettingChange for a key that the mapping of that kind does not
\* hold leaves the mapping as it is: the value is dropped and no key is added.
\* It is stated of the mapping of the state and of the one the form shows.
C19_UnknownKeyIgnored ==
    [][ lastAction' = "HandleSettingChange" =>
          /\ (lastEvent'.op = "model" /\ lastEvent'.arg \notin DOMAIN modelSettings)
                => modelSettings' = modelSettings
          /\ (lastEvent'.op = "agent" /\ lastEvent'.arg \notin DOMAIN agentSettings)
                => agentSettings' = agentSettings
          /\ (lastEvent'.op = "model" /\ lastEvent'.arg \notin DOMAIN tree.modelSettings)
                => tree'.modelSettings = tree.modelSettings
          /\ (lastEvent'.op = "agent" /\ lastEvent'.arg \notin DOMAIN tree.agentSettings)
                => tree'.agentSettings = tree.agentSettings ]_vars

\* the keys a value mapping holds; none when the mapping is absent
Keys(m) == IF m = UndefinedMap THEN {} ELSE DOMAIN m

\* m2 is m1 with entry k written: every other entry of m1 is kept as it was
\* and nothing else is added
OnlyEntryWritten(m1, m2, k) ==
    /\ Keys(m2) = Keys(m1) \cup {k}
    /\ \A x \in Keys(m1) \ {k} : m2[x] = m1[x]

\* C20: handleSettingChange of kind "model" for key k writes entry k of the
\* model mapping and nothing else: its other entries, the agent mapping, the
\* selected agent, provider and model and the settings store are as before;
\* the same with the two mappings exchanged for kind "agent". The mappings of
\* the state are compared for every edit; what the form shows, and agent,
\* provider and model of the state, for edits that land when no effect is owed
\* and no update is queued (React runs owed effects and renders queued updates
\* in any event, and those are not the edit's doing).
C20_EditWritesOneEntry ==
    [][ lastAction' = "HandleSettingChange" =>
          /\ lastEvent'.op = "model" =>
                /\ OnlyEntryWritten(modelSettings, modelSettings', lastEvent'.arg)
                /\ agentSettings' = agentSettings
                /\ ~Pending =>
                      /\ OnlyEntryWritten(tree.modelSettings, tree'.modelSettings,
                                          lastEvent'.arg)
                      /\ tree' = [tree EXCEPT !.modelSettings = tree'.modelSettings]
          /\ lastEvent'.op = "agent" =>
                /\ OnlyEntryWritten(agentSettings, agentSettings', lastEvent'.arg)
                /\ modelSettings' = modelSettings
                /\ ~Pending =>
                      /\ OnlyEntryWritten(tree.agentSettings, tree'.agentSettings,
                                          lastEvent'.arg)
                      /\ tree' = [tree EXCEPT !.agentSettings = tree'.agentSettings]
          /\ lastEvent'.op \in {"model", "agent"}
          /\ currentSettings' = currentSettings
          /\ ~Pending => UNCHANGED << selectedAgent, selectedProvider, selectedModel >>
      ]_vars

\* local's temperature was edited; max_tokens and the agent mapping are as before
C20_Witness ==
    /\ lastAction = "HandleSettingChange"
    /\ ~Pending
    /\ lastEvent = [op |-> "model", arg |-> "temperature"]
    /\ modelSettings = [temperature |-> "0.9", max_tokens |-> "1000"]
    /\ agentSettings = [style |-> "verbose"]

\* the fetch of /api/agents has failed
CatalogFailed == agentsFetch = "done" /\ agents = NullAgents

\* C21 as stated: after the catalog fetch has failed the catalog is unloaded,
\* the five selection fields hold the values they were initialised with,
\* nothing was written to the settings store and no commit call was made.
C21_FailureKeepsInitialSelection ==
    CatalogFailed =>
        /\ selection = StoredSelection(currentSettings)
        /\ currentSettings \in Persisted
        /\ calls = << >>

\* C21 amended: the failure of the catalog fetch changes nothing but loading,
\* and in every step that ends with the catalog failed the store is not
\* written, no external call is made, the catalog stays unloaded and agent,
\* provider and both mappings stay as they are; the selected model changes
\* only by an answer of /api/ollama/models applied while the provider is
\* "ollama".
C21_FailureLeavesNothingUsable ==
    [][ CatalogFailed' =>
          /\ agents' = NullAgents
          /\ currentSettings' = currentSettings
          /\ calls' = << >>
          /\ UNCHANGED << selectedAgent, selectedProvider, modelSettings, agentSettings >>
          /\ lastAction' \notin {"HandleSave", "SaveApiKey", "ClearApiKey"}
          /\ selectedModel' # selectedModel =>
                (lastAction' = "OllamaOk" /\ selectedProvider = "ollama") ]_vars

\* the catalog fetch has failed for a session that started from stored settings
C21_Witness ==
    /\ CatalogFailed
    /\ lastAction = "FetchAgentsFail"
    /\ currentSettings # NullSettings
    /\ selectedAgent = "local" /\ selectedProvider = "ollama"

\* C22: while a call to /api/ollama/models is outstanding the loading flag is
\* true; the flag is false only when no call is outstanding.
C22_LoadingFlagAccurate ==
    Len(inflight) > 0 => isLoadingOllamaModels

\* C23: once every call to /api/ollama/models has resolved, the recorded error
\* and the list are those produced by the call that was issued last (no error
\* and the fetched list for a success, the message and the fallback list for a
\* failure), in whatever order the answers arrived.
C23_LastIssuedWins ==
    (inflight = << >> /\ latest.state = "resolved")
    => (ollamaError = latest.error /\ ollamaModels = latest.list)

\* C24: with a source that answers every call alike, once the user stops the
\* form comes to rest for good: no call outstanding, the loading flag false
\* and no render owed, so no further call is issued.
C24_FetchLoopTerminates ==
    <>[](inflight = << >> /\ ~isLoadingOllamaModels /\ ~Pending)

\* the first tag was auto-selected, the call that followed has answered with a
\* list that holds it, and the form is at rest
C24_Witness ==
    /\ source.kind = "ok"
    /\ lastAction = "OllamaOk"
    /\ currentSettings # NullSettings /\ currentSettings.selectedModel = "llama3"
    /\ selectedProvider = "ollama"
    /\ selectedModel = "mistral:7b" /\ rendered.selectedModel = "mistral:7b"
    /\ inflight = << >> /\ ~isLoadingOllamaModels /\ ~Pending

\* C25: the settings store is written only by a commit that passes the test of
\* handleSave, by the default write of the first load, and by the Save and
\* Clear Key buttons of the key field; a change of agent, provider or model, an
\* edit of a value, a render with its effects and an answer of
\* /api/ollama/models leave the store as it is and call no updateSettings.
C25_DraftNotPublished ==
    [][ /\ (currentSettings' # currentSettings \/ calls' # << >>) =>
              \/ lastAction' = "HandleSave" /\ lastEvent'.arg = "committed"
              \/ lastAction' = "FetchAgentsOk" /\ lastEvent'.arg = "fresh"
              \/ lastAction' \in {"SaveApiKey", "ClearApiKey"}
        /\ lastAction' \in {"SetSelectedAgent", "SetSelectedProvider", "SetSelectedModel",
                             "HandleSettingChange", "RunEffects", "Render", "OllamaOk",
                             "OllamaFail"} =>
              (currentSettings' = currentSettings /\ calls' = << >>) ]_vars

\* the user chose another model and the effects have run; the store still
\* holds the model of the last commit
C25_Witness ==
    /\ lastEvent.op = "setSelectedModel"
    /\ ~Pending
    /\ currentSettings # NullSettings
    /\ currentSettings.selectedModel # Undefined
    /\ selectedModel # currentSettings.selectedModel

====
